---- MODULE Spec2Model ----
(***************************************************************************)
(* Model of ApiService (services/api.ts): the session state, the transport *)
(* handle it rebuilds, and the refresh-on-401 response interceptor with    *)
(* its failedQueue of waiters; and of the Towncryer constructor            *)
(* (towncryerSDK.ts) that configures the session and starts the API-key    *)
(* login.  Spec follows requests through the interceptor; SessionSpec      *)
(* follows an application that configures the session; AppSpec follows     *)
(* requests and the API-key login together; FairSpec is Spec with every    *)
(* transport call answered; EventSpec follows publishEvent of the event    *)
(* service (services/customerService.ts).                                  *)
(*                                                                         *)
(* JavaScript runs the interceptor single-threaded: every action below is  *)
(* one macrotask (a setter call, or the arrival of one transport response  *)
(* together with the promise continuations it schedules).                  *)
(***************************************************************************)
EXTENDS Integers, Sequences, FiniteSets, TLC

\* ---------------------------------------------------------------- bounds
MaxReq == 2
MaxSet == 1
\* handles built in a behaviour of the services/api.ts variant
MaxBuilt == 6
\* push notification services constructed by setCustomerId in a behaviour
MaxPush == 1
\* push messages received in a behaviour
MaxMsg == 2

Reqs == 1..MaxReq
\* request 0 is the clientAppLogin call made by setApiKey
LoginId == 0
AllReqs == Reqs \cup {LoginId}

\* ------------------------------------------------------------ value sets
Undefined == "undefined"
Absent == "absent"
SDKClient == "TowncryerCoreSDK"
NoRefreshTokenMsg == "Refresh token is required to refresh short-lived token"

\* tokens the application configures
Tokens == {"A1"}
RTokens == {"R1"}
\* the pair the auth server issues on its k-th successful refresh, k = 1, 2, ...
IssuedToken(k) == "A" \o ToString(k + 1)
IssuedRefreshToken(k) == "R" \o ToString(k + 1)
\* the pair the auth server returns to a successful API-key login
LoginToken == "L1"
LoginRefreshToken == "LR1"
AllTokens == Tokens \cup {LoginToken} \cup {IssuedToken(k) : k \in 1..(MaxReq + 1)}
AllRTokens == RTokens \cup {LoginRefreshToken}
                \cup {IssuedRefreshToken(k) : k \in 1..(MaxReq + 1)}
\* what the failed request's config carries in headers['Client'];
\* "noconfig" stands for an error without a config
Clients == {SDKClient, "OtherClient", Absent, "noconfig"}
Statuses == {401, 500}

\* enum AuthMethod
API_KEY == "api_key"
TOKEN == "token"

\* the keys of apiMap, and the sub-clients the application asks for by itself
ApiNames == {"auth", "event", "customer", "message"}
AskedApiNames == {"event"}

\* the base URL the Towncryer constructor installs, and one an application sets
StagingUrl == "https://staging-api.towncryer.io/api/v1"
BaseUrls == {"http://new-test-api"}
\* organisation ids and API keys the application configures
Orgs == {"org1"}
ApiKeys == {"K1"}
\* the factory the module-level getInstance call passes, and the factories
\* later callers pass
DefaultFactory == "DefaultAxiosInstanceFactory"
Factories == {DefaultFactory, "OtherFactory"}

Truthy(x) == x # Undefined /\ x # ""

Bearer(t) == "Bearer " \o t

OrEmpty(t) == IF Truthy(t) THEN t ELSE ""

\* ----------------------------------------------------------------- state
VARIABLES
  token,          \* this.token
  refreshToken,   \* this.refreshToken
  tenantId,       \* this.tenantId
  isRefreshing,   \* this.isRefreshing
  failedQueue,    \* this.failedQueue: sequence of waiters
  axiosInstance,  \* this.axiosInstance: [id, baseURL, interceptors, headers]
  created,        \* number of axiosInstanceFactory.create calls so far
  req,            \* the requests issued through the transport
  rcall,          \* rcall[r]: the refresh call started for trigger r
  nSet,           \* number of session calls made by the application
  basePath,       \* this.configuration.basePath
  authMethod,     \* this.authMethod
  apiInstances,   \* this.apiInstances: the sub-client cached under each name
  login,          \* the API-key login: its key, who started it, its answer
  towncryer,      \* the Towncryer object constructed, with its config and
                  \* the publishEvent call of its event service
  call,           \* the latest call the application made on the session
  axiosInstanceFactory  \* this.axiosInstanceFactory; undefined: no instance yet

sessionVars == <<token, refreshToken, tenantId, axiosInstance, created,
                 basePath, authMethod, axiosInstanceFactory>>
appVars == <<login, towncryer, call>>
vars == <<token, refreshToken, tenantId, isRefreshing, failedQueue,
          axiosInstance, created, req, rcall, nSet, basePath, authMethod,
          apiInstances, login, towncryer, call, axiosInstanceFactory>>

\* ----------------------------------------------------------- error values
Pending == [kind |-> "pending", r |-> 0, n |-> 0, status |-> 0, message |-> ""]
Response(r, n) ==
  [kind |-> "response", r |-> r, n |-> n, status |-> 200, message |-> ""]
HttpError(r, n, status) ==
  [kind |-> "httpError", r |-> r, n |-> n, status |-> status, message |-> ""]
RefreshCallError(r, status) ==
  [kind |-> "refreshError", r |-> r, n |-> 0, status |-> status, message |-> ""]
NoRefreshTokenError ==
  [kind |-> "Error", r |-> 0, n |-> 0, status |-> 0, message |-> NoRefreshTokenMsg]

IsError(o) == o.kind \in {"httpError", "refreshError", "Error"}

\* -------------------------------------------------------- transport handle
\* variant of CreateAxiosInstance that sets all three headers unconditionally
CreateAxiosInstanceAllHeaders(base, tok, ten, n) ==
  [id |-> n,
   baseURL |-> base,
   interceptors |-> FALSE,
   headers |-> [Client |-> SDKClient,
                Tenant |-> ten,
                Authorization |-> Bearer(tok)]]

CreateAxiosInstance(base, tok, ten, n) ==
  [id |-> n,
   baseURL |-> base,
   interceptors |-> FALSE,
   headers |-> [Client |-> SDKClient,
                Tenant |-> IF Truthy(ten) THEN ten ELSE Absent,
                Authorization |-> IF Truthy(tok) THEN Bearer(tok) ELSE Absent]]

\* setupAxiosInterceptors: the interceptors are installed on handle h
SetupAxiosInterceptors(h) == [h EXCEPT !.interceptors = TRUE]

\* variant of RequestAuth in which the request keeps what its config and the
\* handle give it
RequestAuthFromHandle(tok, h, own) ==
  IF own # Absent THEN own ELSE h.headers.Authorization

\* request interceptor: Authorization of a request sent on handle h while the
\* session token is tok, when the request config already carries `own`
RequestAuth(tok, h, own) ==
  IF Truthy(tok) THEN Bearer(tok)
  ELSE IF own # Absent THEN own ELSE h.headers.Authorization

\* ------------------------------------------------------------ interceptor
\* variant of ClientOk without the comparison against the SDK's value
ClientOkNoCompare(client) ==
  /\ client # "noconfig"
  /\ client # Absent

\* the first guard of the response-error handler: the failed request has a
\* config whose Client header is the SDK's
ClientOk(client) ==
  /\ client # "noconfig"
  /\ client # Absent
  /\ client = SDKClient

\* variant of Eligible that does not look at the _retry marker
EligibleIgnoringRetry(client, status, retry) ==
  /\ ClientOk(client)
  /\ status = 401

\* variant of Eligible that does not look at the response status
EligibleAnyStatus(client, status, retry) ==
  /\ ClientOk(client)
  /\ ~retry

\* the three eligibility predicates of the response-error handler
Eligible(client, status, retry) ==
  /\ ClientOk(client)
  /\ ~(status # 401 \/ retry)

\* variant of ShouldQueue that never queues
ShouldQueueNever(refreshing) == FALSE

\* `if (this.isRefreshing)`: the request waits for the refresh in flight
ShouldQueue(refreshing) == refreshing

\* `if (!this.refreshToken) throw`
RefreshTokenMissing(rt) == ~Truthy(rt)

\* variant of RefreshEndpoint that does not look at the auth mode
RefreshEndpointShortLived(mode) == "refreshShortLivedToken"

\* refreshShortLivedToken: the method of the auth sub-client it calls
RefreshEndpoint(mode) ==
  IF mode = API_KEY THEN "refreshClientAppToken" ELSE "refreshShortLivedToken"

\* value of isRefreshing left by the catch block of the handler, given the
\* value it had inside the try block
FlagAfterCatch(flag) == flag

\* value of isRefreshing left by the finally callback of the replay
FlagAfterFinally(flag) == FALSE

ReqWaiter(r) == [kind |-> "req", r |-> r]
CallWaiter(r) == [kind |-> "refresh", r |-> r]

InQueue(w, q) == \E i \in 1..Len(q) : q[i] = w

NoError == Pending

\* variant of DrainOrder that visits the queue from its last entry
DrainOrderBackwards(q) == [i \in 1..Len(q) |-> q[Len(q) + 1 - i]]

\* `this.failedQueue.forEach`: the waiters in the order the loop visits them
DrainOrder(q) == q

\* the position at which the loop of processQueue reaches waiter w of q
Turn(w, q) == CHOOSE i \in 1..Len(q) : DrainOrder(q)[i] = w

\* variant of ProcessQueueReqs whose resolved waiters are replayed with the
\* Authorization header they were first sent with
ProcessQueueReqsKeepHeader(q, error, newTok, tokNow, h, rq) ==
  [x \in AllReqs |->
     IF InQueue(ReqWaiter(x), q)
       THEN IF error # NoError
              THEN [rq[x] EXCEPT !.st = "done", !.outcome = error,
                                 !.turn = Turn(ReqWaiter(x), q)]
              ELSE [rq[x] EXCEPT !.st = "inflight",
                                 !.turn = Turn(ReqWaiter(x), q),
                                 !.nSend = @ + 1,
                                 !.client = SDKClient]
       ELSE IF InQueue(CallWaiter(x), q) /\ error # NoError
              THEN [rq[x] EXCEPT !.st = "done", !.outcome = error]
              ELSE rq[x]]

\* variant of ProcessQueueReqs whose rejected waiters get their own 401 error
ProcessQueueReqsOwnError(q, error, newTok, tokNow, h, rq) ==
  [x \in AllReqs |->
     IF InQueue(ReqWaiter(x), q)
       THEN IF error # NoError
              THEN [rq[x] EXCEPT !.st = "done",
                                 !.outcome = HttpError(x, rq[x].nSend, rq[x].resp),
                                 !.turn = Turn(ReqWaiter(x), q)]
              ELSE [rq[x] EXCEPT !.st = "inflight",
                                 !.turn = Turn(ReqWaiter(x), q),
                                 !.nSend = @ + 1,
                                 !.client = SDKClient,
                                 !.auth = RequestAuth(tokNow, h, Bearer(newTok))]
       ELSE IF InQueue(CallWaiter(x), q) /\ error # NoError
              THEN [rq[x] EXCEPT !.st = "done", !.outcome = error]
              ELSE rq[x]]

\* variant of ProcessQueueReqs that settles only the first waiter of q
ProcessQueueReqsHeadOnly(q, error, newTok, tokNow, h, rq) ==
  [x \in AllReqs |->
     IF Len(q) >= 1 /\ q[1] = ReqWaiter(x)
       THEN IF error # NoError
              THEN [rq[x] EXCEPT !.st = "done", !.outcome = error,
                                 !.turn = Turn(ReqWaiter(x), q)]
              ELSE [rq[x] EXCEPT !.st = "inflight",
                                 !.turn = Turn(ReqWaiter(x), q),
                                 !.nSend = @ + 1,
                                 !.client = SDKClient,
                                 !.auth = RequestAuth(tokNow, h, Bearer(newTok))]
       ELSE IF InQueue(CallWaiter(x), q) /\ error # NoError
              THEN [rq[x] EXCEPT !.st = "done", !.outcome = error]
              ELSE rq[x]]

\* processQueue, the part that acts on the requests: every waiter of q is
\* rejected with `error`, or resolved with newTok, whose continuation rewrites
\* Authorization and replays the request on the current handle h (the request
\* interceptor of h runs while the session token is tokNow).
\* A parked refresh call that is rejected makes its trigger's catch block run.
ProcessQueueReqs(q, error, newTok, tokNow, h, rq) ==
  [x \in AllReqs |->
     IF InQueue(ReqWaiter(x), q)
       THEN IF error # NoError
              THEN [rq[x] EXCEPT !.st = "done", !.outcome = error,
                                 !.turn = Turn(ReqWaiter(x), q)]
              ELSE [rq[x] EXCEPT !.st = "inflight",
                                 !.turn = Turn(ReqWaiter(x), q),
                                 !.nSend = @ + 1,
                                 !.client = SDKClient,
                                 !.auth = RequestAuth(tokNow, h, Bearer(newTok))]
       ELSE IF InQueue(CallWaiter(x), q) /\ error # NoError
              THEN [rq[x] EXCEPT !.st = "done", !.outcome = error]
              ELSE rq[x]]

\* processQueue, the part that acts on parked refresh calls
ProcessQueueCalls(q, error, rc) ==
  [x \in AllReqs |->
     IF InQueue(CallWaiter(x), q)
       THEN IF error # NoError
              THEN [rc[x] EXCEPT !.st = "failed", !.turn = Turn(CallWaiter(x), q)]
              ELSE [rc[x] EXCEPT !.st = "sent", !.turn = Turn(CallWaiter(x), q)]
       ELSE rc[x]]

\* ------------------------------------------------- session operations
\* The synchronous operations of the session, as functions on the record s
\* of the fields they read and write, so that a caller can run several of
\* them in one macrotask.
Session ==
  [token |-> token, refreshToken |-> refreshToken, tenantId |-> tenantId,
   basePath |-> basePath, authMethod |-> authMethod,
   axiosInstance |-> axiosInstance, created |-> created,
   apiInstances |-> apiInstances, axiosInstanceFactory |-> axiosInstanceFactory]

\* updateAxiosInstance: one more factory.create call, from the current fields
UpdateAxiosInstance(s) ==
  [s EXCEPT !.created = s.created + 1,
            !.axiosInstance =
               SetupAxiosInterceptors(
                 CreateAxiosInstance(s.basePath, s.token, s.tenantId, s.created + 1))]

\* variant of DoSetBaseUrl that keeps the handle built before
DoSetBaseUrlKeepHandle(s, url) == [s EXCEPT !.basePath = url]

DoSetBaseUrl(s, url) == UpdateAxiosInstance([s EXCEPT !.basePath = url])

\* variant of DoSetToken that also switches the auth mode back to TOKEN
DoSetTokenTokenMode(s, t) ==
  IF s.token = t THEN [s EXCEPT !.authMethod = TOKEN]
  ELSE UpdateAxiosInstance([s EXCEPT !.token = t, !.authMethod = TOKEN])

\* variant of DoSetToken without the early return
DoSetTokenAlways(s, t) == UpdateAxiosInstance([s EXCEPT !.token = t])

DoSetToken(s, t) ==
  IF s.token = t THEN s ELSE UpdateAxiosInstance([s EXCEPT !.token = t])

\* variant of DoSetOrganisationId without the early return
DoSetOrganisationIdAlways(s, id) == UpdateAxiosInstance([s EXCEPT !.tenantId = id])

DoSetOrganisationId(s, id) ==
  IF s.tenantId = id THEN s ELSE UpdateAxiosInstance([s EXCEPT !.tenantId = id])

\* variant of DoSetTokenAndOrganisationId that calls the two single setters
DoSetTokenAndOrganisationIdTwice(s, t, id) ==
  DoSetOrganisationId(DoSetToken(s, t), id)

DoSetTokenAndOrganisationId(s, t, id) ==
  LET shouldUpdate == s.token # t \/ s.tenantId # id
      s1 == [s EXCEPT !.token = t, !.tenantId = id]
  IN IF shouldUpdate THEN UpdateAxiosInstance(s1) ELSE s1

DoSetRefreshToken(s, rt) == [s EXCEPT !.refreshToken = rt]

\* the private constructor run with factory f: the fields take their
\* initialisers and the factory makes the first handle of the new object
NewApiService(s, f) ==
  [token |-> Undefined, refreshToken |-> Undefined, tenantId |-> "",
   basePath |-> Undefined, authMethod |-> TOKEN,
   axiosInstance |-> SetupAxiosInterceptors(
                       CreateAxiosInstance(Undefined, Undefined, "", s.created + 1)),
   created |-> s.created + 1,
   apiInstances |-> [n \in {} |-> 0], axiosInstanceFactory |-> f]

\* variant of InstanceMissing that never finds the instance
InstanceMissingAlways(s) == TRUE

\* `if (!ApiService.instance)`: the static is assigned by the first getInstance
\* call, whose constructor stores the factory
InstanceMissing(s) == s.axiosInstanceFactory = Undefined

\* getInstance(f): the session it returns
DoGetInstance(s, f) == IF InstanceMissing(s) THEN NewApiService(s, f) ELSE s

\* apiInstances maps the names looked up so far to their cache entries;
\* `built` counts the sub-clients constructed under the name so far
NoApiInstances == [n \in {} |-> 0]

\* createApi: the sub-client gets the configuration's base path and the handle
\* that is current now
CreateApi(s, apiName) ==
  [basePath |-> s.basePath, axios |-> s.axiosInstance,
   built |-> IF apiName \in DOMAIN s.apiInstances
               THEN s.apiInstances[apiName].built + 1 ELSE 1]

\* variant of ApiMissing that never finds a cached sub-client
ApiMissingAlways(cache, apiName) == TRUE

\* `if (!this.apiInstances[apiName])`
ApiMissing(cache, apiName) == apiName \notin DOMAIN cache

DoGetApi(s, apiName) ==
  IF ApiMissing(s.apiInstances, apiName)
    THEN [s EXCEPT !.apiInstances =
            [n \in DOMAIN s.apiInstances \cup {apiName} |->
               IF n = apiName THEN CreateApi(s, apiName) ELSE s.apiInstances[n]]]
    ELSE s

\* variant of DoSetApiKey that leaves the auth mode alone
DoSetApiKeyKeepMode(s) == DoGetApi(s, "auth")

\* setApiKey up to its await: the mode switch and the auth sub-client lookup
DoSetApiKey(s) == DoGetApi([s EXCEPT !.authMethod = API_KEY], "auth")

\* the fields of s become the session's
Adopt(s) ==
  /\ token' = s.token
  /\ refreshToken' = s.refreshToken
  /\ tenantId' = s.tenantId
  /\ basePath' = s.basePath
  /\ authMethod' = s.authMethod
  /\ axiosInstance' = s.axiosInstance
  /\ created' = s.created
  /\ apiInstances' = s.apiInstances
  /\ axiosInstanceFactory' = s.axiosInstanceFactory

\* ------------------------------------------------------- event service
\* what the events request of publishEvent can settle with: a response, or an
\* error that has a status and a message, or one that has only a message
EventPayloads == {"signup", "purchase"}
EventResponse == [kind |-> "response", hasStatus |-> TRUE, status |-> 200, message |-> ""]
EventErrors ==
  {[kind |-> "error", hasStatus |-> TRUE, status |-> 401, message |-> "Unauthorized"],
   [kind |-> "error", hasStatus |-> TRUE, status |-> 500, message |-> ""],
   [kind |-> "error", hasStatus |-> FALSE, status |-> 0, message |-> "Network Error"]}
EventAnswers == {EventResponse} \cup EventErrors

\* handleApiError: an error that has status and message is returned as it is,
\* any other is wrapped in an ApiError of status 500
HandleApiError(e) ==
  IF e.hasStatus
    THEN e
    ELSE [kind |-> "error", hasStatus |-> TRUE, status |-> 500,
          message |-> "Error processing API request: " \o e.message]

\* `apiError.message || 'An unknown error occurred'`
OrUnknown(m) == IF m = "" THEN "An unknown error occurred" ELSE m

\* publishEvent after its await: how the promise it returned settles when the
\* events request settles with o
PublishSettles(o) ==
  IF o.kind = "response"
    THEN [settled |-> "resolved", code |-> "200", message |-> "Success",
          thrown |-> "none"]
    ELSE [settled |-> "resolved", code |-> "500",
          message |-> OrUnknown(HandleApiError(o).message), thrown |-> "none"]

NoPublish ==
  [st |-> "idle", payload |-> "none", answer |-> "none", status |-> 0,
   published |-> 0,
   result |-> [settled |-> "none", code |-> "none", message |-> "", thrown |-> "none"]]

\* ------------------------------------------------------------------ Init
\* req[r].resp and rcall[r].resp hold the status of the latest response received
\* (0: none yet); rcall[r].endpoint and rcall[r].rt hold the method called and
\* the refresh token passed; rcall[r].data holds the token pair of a
\* successful answer; turn holds the position at which processQueue settled
\* the waiter (0: it has not)
NoData == [accessToken |-> Undefined, refreshToken |-> Undefined]

NoCall == [op |-> "none", a |-> "", b |-> ""]
Call(op, a, b) == [op |-> op, a |-> a, b |-> b]
NoConfig ==
  [accessToken |-> Undefined, apiKey |-> Undefined, organisationId |-> Undefined,
   refreshToken |-> Undefined, firebase |-> Undefined, customerId |-> Undefined]

\* ------------------------------------------- push notification service
FirebaseConfigs == {"firebaseConfig"}
CustomerIds == {"cust1", "cust2"}
EmptyObject == "{}"
Null == "null"

NotInitialized == "Push notifications not initialized"
NoMessaging == "Firebase messaging not initialized, notifications will not be received"
CustomerIdRequired == "Customer ID is required to register a push token"
TokenRequired == "Push notification token is required"
TokenRegisteredEvent == "PushNotificationTokenRegisteredEvent"
PushTokens == {"pushToken"}

\* towncryer.registerToken: the registerToken call that is waiting for its
\* publishEvent, and the response the latest one returned
NoRegister ==
  [st |-> "none", result |-> [settled |-> "none", code |-> "none", message |-> "",
                              thrown |-> "none"]]

\* new FirebasePushNotificationService(config, eventService, customerId):
\* firebaseMessaging is not set before initialize has succeeded;
\* initializing: initialize is waiting for isSupported(); listening: an
\* onMessage callback has been registered
NewPushService(config, customerId) ==
  [config |-> config, customerId |-> customerId, firebaseMessaging |-> FALSE,
   initializing |-> FALSE, listening |-> FALSE]

\* `if (notifications.length > 50)`
StoredLimit == 50

\* lengths of the stored notification lists at the start
StoredAtStart == {0, StoredLimit - 1, StoredLimit}

\* a stored list of n notifications, the newest first; notifications are
\* numbered in the order of their reception, those of the list at the start
\* are 0, -1, -2, ...
OldList(n) == [k \in 1..n |-> 1 - k]

\* towncryer.services holds the push notification services constructed so
\* far, towncryer.pushNotifications the position of the one the field
\* this.pushNotifications refers to (0: the field is undefined), and
\* towncryer.thrown the message of the error the latest call threw;
\* towncryer.localStorage[c] is the list that the localStorage of the page
\* holds under '<c>_notifications', towncryer.received the number of push
\* messages received and towncryer.storageKey the customer id under which
\* the latest one was stored ("none": it was not stored)
NoTowncryer ==
  [made |-> FALSE, config |-> NoConfig, eventService |-> NoPublish,
   customerId |-> "", services |-> <<>>, pushNotifications |-> 0,
   thrown |-> "none", registerToken |-> NoRegister,
   localStorage |-> [c \in CustomerIds |-> <<>>], received |-> 0,
   storageKey |-> "none"]

InitSession ==
  /\ token = Undefined
  /\ refreshToken = Undefined
  /\ tenantId = ""
  /\ isRefreshing = FALSE
  /\ failedQueue = <<>>
  /\ created = 1
  /\ basePath = Undefined
  /\ authMethod = TOKEN
  /\ axiosInstance = SetupAxiosInterceptors(
                       CreateAxiosInstance(Undefined, Undefined, "", 1))
  /\ apiInstances = NoApiInstances
  /\ req = [r \in AllReqs |->
              [st |-> "idle", client |-> SDKClient, retry |-> FALSE,
               nSend |-> 0, auth |-> Absent, role |-> "none",
               outcome |-> Pending, early |-> FALSE, resp |-> 0, turn |-> 0]]
  /\ rcall = [r \in AllReqs |-> [st |-> "none", endpoint |-> "none",
                                  rt |-> Undefined, retry |-> FALSE,
                                  resp |-> 0, data |-> NoData, turn |-> 0]]
  /\ nSet = 0
  /\ login = [key |-> Undefined, by |-> "none", data |-> NoData]
  /\ call = NoCall
  /\ axiosInstanceFactory = DefaultFactory

Init ==
  /\ InitSession
  /\ towncryer = NoTowncryer

\* a promise continuation of the current macrotask is still to run
Busy == \E r \in AllReqs : req[r].st = "settling"

\* --------------------------------------------------------------- setters
\* setToken body: assigns token and rebuilds the handle unless unchanged
SetTokenUpdate(t) ==
  LET s == DoSetToken(Session, t) IN
  /\ token' = s.token
  /\ axiosInstance' = s.axiosInstance
  /\ created' = s.created

\* a setter call, which is counted; it leaves the session as s
SetterCall(s) ==
  /\ ~Busy
  /\ nSet < MaxSet
  /\ nSet' = nSet + 1
  /\ Adopt(s)
  /\ UNCHANGED <<isRefreshing, failedQueue, req, rcall, login, towncryer>>

\* setter calls made while requests are under way
setToken(t) ==
  /\ SetterCall(DoSetToken(Session, t))
  /\ UNCHANGED call

setRefreshToken(rt) ==
  /\ SetterCall(DoSetRefreshToken(Session, rt))
  /\ UNCHANGED call

\* setter calls of an application that configures the session; `call`
\* remembers the latest one
appSetToken(t) ==
  /\ SetterCall(DoSetToken(Session, t))
  /\ call' = Call("setToken", t, "")

appSetRefreshToken(rt) ==
  /\ SetterCall(DoSetRefreshToken(Session, rt))
  /\ call' = Call("setRefreshToken", rt, "")

setOrganisationId(id) ==
  /\ SetterCall(DoSetOrganisationId(Session, id))
  /\ call' = Call("setOrganisationId", id, "")

setTokenAndOrganisationId(t, id) ==
  /\ SetterCall(DoSetTokenAndOrganisationId(Session, t, id))
  /\ call' = Call("setTokenAndOrganisationId", t, id)

setBaseUrl(url) ==
  /\ SetterCall(DoSetBaseUrl(Session, url))
  /\ call' = Call("setBaseUrl", url, "")

\* ApiService.getInstance(f) called by the application; a newly constructed
\* object would start with its own isRefreshing and failedQueue
getInstance(f) ==
  /\ ~Busy
  /\ nSet < MaxSet
  /\ nSet' = nSet + 1
  /\ Adopt(DoGetInstance(Session, f))
  /\ IF InstanceMissing(Session)
       THEN isRefreshing' = FALSE /\ failedQueue' = <<>>
       ELSE UNCHANGED <<isRefreshing, failedQueue>>
  /\ call' = Call("getInstance", f, "")
  /\ UNCHANGED <<req, rcall, login, towncryer>>

\* -------------------------------------------------------------- requests
\* a request is issued on the current handle; c is the Client header its
\* config will show to the response interceptor.  `early` remembers whether no
\* request had been marked _retry yet when this one was issued.
Send(r, c) ==
  /\ ~Busy
  /\ req[r].st = "idle"
  /\ IF r = 1 THEN TRUE ELSE req[r - 1].st # "idle"
  /\ req' = [req EXCEPT ![r] = [@ EXCEPT !.st = "inflight",
                                         !.client = c,
                                         !.nSend = 1,
                                         !.auth = RequestAuth(token, axiosInstance, Absent),
                                         !.early = \A x \in AllReqs : ~req[x].retry]]
  /\ UNCHANGED <<sessionVars, apiInstances, appVars, isRefreshing, failedQueue, rcall, nSet>>

\* the await of setApiKey returns for a response and throws for an error
LoginResumes(o) == ~IsError(o)

\* setApiKey after its await: the tokens of the login answer are adopted
LoginAdopt(data) ==
  /\ SetTokenUpdate(data.accessToken)
  /\ refreshToken' = data.refreshToken
  /\ UNCHANGED <<tenantId, basePath, authMethod, axiosInstanceFactory>>

\* the send of request r settles with result o (a response, or an error that
\* the interceptor passed through unchanged).  The replay of the request that
\* triggered the refresh still has its .catch and .finally callbacks to run.
PassThrough(r, o) ==
  /\ req' = [req EXCEPT ![r] = [@ EXCEPT
                !.st = IF req[r].role = "trigger" THEN "settling" ELSE "done",
                !.resp = o.status,
                !.outcome = o]]
  /\ UNCHANGED <<sessionVars, apiInstances, appVars, isRefreshing, failedQueue, rcall, nSet>>

RespondOk(r) ==
  /\ ~Busy
  /\ req[r].st = "inflight"
  /\ PassThrough(r, Response(r, req[r].nSend))

\* the .catch and .finally callbacks attached to the replay of the trigger
ReplaySettled(r) ==
  /\ req[r].st = "settling"
  /\ IF IsError(req[r].outcome)
       THEN /\ req' = [ProcessQueueReqs(failedQueue, req[r].outcome, "", token,
                                        axiosInstance, req)
                         EXCEPT ![r] = [@ EXCEPT !.st = "done"]]
            /\ rcall' = ProcessQueueCalls(failedQueue, req[r].outcome, rcall)
            /\ failedQueue' = <<>>
       ELSE /\ req' = [req EXCEPT ![r] = [@ EXCEPT !.st = "done"]]
            /\ UNCHANGED <<rcall, failedQueue>>
  /\ isRefreshing' = FlagAfterFinally(isRefreshing)
  /\ IF r = LoginId /\ LoginResumes(req[r].outcome)
       THEN LoginAdopt(login.data)
       ELSE UNCHANGED sessionVars
  /\ UNCHANGED <<apiInstances, appVars, nSet>>

\* the transport rejects request r with status s: the response-error handler
RespondError(r, s) ==
  /\ ~Busy
  /\ req[r].st = "inflight"
  /\ LET err == HttpError(r, req[r].nSend, s) IN
     IF ~Eligible(req[r].client, s, req[r].retry)
       THEN PassThrough(r, err)
       ELSE IF ShouldQueue(isRefreshing)
         THEN /\ req' = [req EXCEPT ![r] = [@ EXCEPT !.retry = TRUE,
                                                     !.resp = s,
                                                     !.st = "queued",
                                                     !.role = "waiter"]]
              /\ failedQueue' = Append(failedQueue, ReqWaiter(r))
              /\ UNCHANGED <<sessionVars, apiInstances, appVars, isRefreshing, rcall, nSet>>
         ELSE IF RefreshTokenMissing(refreshToken)
           THEN \* refreshShortLivedToken throws; the catch block runs
                /\ req' = [ProcessQueueReqs(failedQueue, NoRefreshTokenError, "",
                                            token, axiosInstance, req)
                             EXCEPT ![r] = [@ EXCEPT !.retry = TRUE,
                                                     !.resp = s,
                                                     !.st = "done",
                                                     !.role = "trigger",
                                                     !.outcome = NoRefreshTokenError]]
                /\ rcall' = ProcessQueueCalls(failedQueue, NoRefreshTokenError, rcall)
                /\ failedQueue' = <<>>
                /\ isRefreshing' = FlagAfterCatch(TRUE)
                /\ UNCHANGED <<sessionVars, apiInstances, appVars, nSet>>
           ELSE \* the refresh call is sent with the refresh token held now
                /\ req' = [req EXCEPT ![r] = [@ EXCEPT !.retry = TRUE,
                                                       !.resp = s,
                                                       !.st = "awaitRefresh",
                                                       !.role = "trigger"]]
                /\ rcall' = [rcall EXCEPT ![r] = [st |-> "sent",
                                                  endpoint |-> RefreshEndpoint(authMethod),
                                                  rt |-> refreshToken,
                                                  retry |-> FALSE,
                                                  resp |-> 0,
                                                  data |-> NoData,
                                                  turn |-> 0]]
                /\ isRefreshing' = TRUE
                /\ apiInstances' = DoGetApi(Session, "auth").apiInstances
                /\ UNCHANGED <<sessionVars, appVars, failedQueue, nSet>>

\* ---------------------------------------------------------- refresh call
\* variant of RefreshAdopt that adopts nothing before the handler goes on
RefreshAdoptNothing(s, a, rt) == s

\* refreshShortLivedToken after its await: the pair of the answer is adopted
\* before the function returns to the handler
RefreshAdopt(s, a, rt) == DoSetRefreshToken(DoSetToken(s, a), rt)

\* the handler replays the triggering request after the loop of processQueue
\* has visited the waiters of q
ReplayTurn(q) == Len(q) + 1

\* the refresh endpoint answers the call of trigger r with access token a and
\* refresh token rt: refreshShortLivedToken adopts them, the handler rewrites
\* the header, drains the queue and replays the triggering request
RefreshOk(r, a, rt) ==
  /\ ~Busy
  /\ rcall[r].st = "sent"
  /\ LET s == RefreshAdopt(Session, a, rt)
         newToken == OrEmpty(a)
     IN
     /\ token' = s.token
     /\ axiosInstance' = s.axiosInstance
     /\ created' = s.created
     /\ refreshToken' = s.refreshToken
     /\ req' = [ProcessQueueReqs(failedQueue, NoError, newToken, s.token,
                                 s.axiosInstance, req)
                  EXCEPT ![r] = [@ EXCEPT !.st = "inflight",
                                          !.nSend = @ + 1,
                                          !.client = SDKClient,
                                          !.turn = ReplayTurn(failedQueue),
                                          !.auth = RequestAuth(s.token, s.axiosInstance,
                                                               Bearer(newToken))]]
     /\ rcall' = [ProcessQueueCalls(failedQueue, NoError, rcall)
                    EXCEPT ![r] = [@ EXCEPT !.st = "ok",
                                            !.resp = 200,
                                            !.data = [accessToken |-> a,
                                                      refreshToken |-> rt]]]
  /\ failedQueue' = <<>>
  /\ UNCHANGED <<tenantId, basePath, authMethod, axiosInstanceFactory,
                 apiInstances, appVars, isRefreshing, nSet>>

\* the refresh endpoint rejects the call of trigger r with status s; the call
\* was made on an intercepted handle, so the response-error handler sees it
RefreshError(r, s) ==
  /\ ~Busy
  /\ rcall[r].st = "sent"
  /\ LET err == RefreshCallError(r, s) IN
     IF Eligible(SDKClient, s, rcall[r].retry)
       THEN IF ShouldQueue(isRefreshing)
         THEN /\ rcall' = [rcall EXCEPT ![r] = [@ EXCEPT !.st = "parked", !.resp = s,
                                                         !.retry = TRUE]]
              /\ failedQueue' = Append(failedQueue, CallWaiter(r))
              /\ UNCHANGED <<sessionVars, apiInstances, appVars, isRefreshing, req, nSet>>
         ELSE \* a refresh started on behalf of the refresh call itself
              /\ rcall' = [rcall EXCEPT ![r] = [@ EXCEPT !.st = "nested", !.resp = s,
                                                         !.retry = TRUE]]
              /\ isRefreshing' = TRUE
              /\ UNCHANGED <<sessionVars, apiInstances, appVars, failedQueue, req, nSet>>
       ELSE \* passed through: the await throws and the catch block runs
            /\ req' = [ProcessQueueReqs(failedQueue, err, "", token, axiosInstance, req)
                         EXCEPT ![r] = [@ EXCEPT !.st = "done", !.outcome = err]]
            /\ rcall' = [ProcessQueueCalls(failedQueue, err, rcall)
                           EXCEPT ![r] = [@ EXCEPT !.st = "failed", !.resp = s]]
            /\ failedQueue' = <<>>
            /\ isRefreshing' = FlagAfterCatch(isRefreshing)
            /\ UNCHANGED <<sessionVars, apiInstances, appVars, nSet>>

\* the auth server has answered NextIssue - 1 refresh calls successfully
NextIssue == 1 + Cardinality({r \in AllReqs : rcall[r].st = "ok"})

\* --------------------------------------------------------- API-key login
\* the clientAppLogin request as it leaves through the auth sub-client of s
LoginSent(s) ==
  [req[LoginId] EXCEPT !.st = "inflight",
                       !.client = SDKClient,
                       !.nSend = 1,
                       !.auth = RequestAuth(s.token, s.apiInstances["auth"].axios, Absent),
                       !.early = \A x \in AllReqs : ~req[x].retry]

\* setApiKey(k) called by the application itself, up to its await
setApiKey(k) ==
  /\ ~Busy
  /\ req[LoginId].st = "idle"
  /\ LET s == DoSetApiKey(Session) IN
     /\ Adopt(s)
     /\ req' = [req EXCEPT ![LoginId] = LoginSent(s)]
  /\ login' = [key |-> k, by |-> "application", data |-> NoData]
  /\ call' = Call("setApiKey", k, "")
  /\ UNCHANGED <<isRefreshing, failedQueue, rcall, nSet, towncryer>>

\* the login endpoint answers with access token a and refresh token rt; unless
\* this was the replay of a trigger (whose callbacks run first), setApiKey
\* resumes and adopts the pair
LoginOk(a, rt) ==
  /\ ~Busy
  /\ req[LoginId].st = "inflight"
  /\ login' = [login EXCEPT !.data = [accessToken |-> a, refreshToken |-> rt]]
  /\ req' = [req EXCEPT ![LoginId] = [@ EXCEPT
                !.st = IF req[LoginId].role = "trigger" THEN "settling" ELSE "done",
                !.resp = 200,
                !.outcome = Response(LoginId, req[LoginId].nSend)]]
  /\ IF req[LoginId].role = "trigger"
       THEN UNCHANGED sessionVars
       ELSE LoginAdopt(login'.data)
  /\ UNCHANGED <<apiInstances, towncryer, call, isRefreshing,
                 failedQueue, rcall, nSet>>

\* the rejection of setApiKey reaches the .catch of the Towncryer constructor
LoginFailureLogged ==
  /\ login.by = "constructor"
  /\ req[LoginId].st = "done"
  /\ IsError(req[LoginId].outcome)

\* ------------------------------------------------------------ sub-clients
getApi(n) ==
  /\ ~Busy
  /\ Adopt(DoGetApi(Session, n))
  /\ UNCHANGED <<isRefreshing, failedQueue, req, rcall, nSet, appVars>>

\* a request issued now through the sub-client cached under n: it leaves on
\* the handle the sub-client was constructed with, whose request interceptor
\* stamps Client and, when the session holds a token, Authorization
Request(n) ==
  LET h == apiInstances[n].axios IN
  [axios |-> h,
   headers |-> [Client |-> SDKClient,
                Tenant |-> h.headers.Tenant,
                Authorization |-> RequestAuth(token, h, Absent)]]

\* ---------------------------------------------------- Towncryer constructor
Configs ==
  [accessToken : Tokens \cup {Undefined}, apiKey : ApiKeys \cup {Undefined},
   organisationId : Orgs \cup {Undefined}, refreshToken : RTokens \cup {Undefined},
   firebase : {Undefined}, customerId : {Undefined}]

\* configs that differ in the firebase entry and the customer id
PushConfigs ==
  [accessToken : {Undefined}, apiKey : {Undefined}, organisationId : {Undefined},
   refreshToken : {Undefined}, firebase : FirebaseConfigs \cup {Undefined},
   customerId : CustomerIds \cup {Undefined}]

\* `config.firebase !== null || Object.keys(config.firebase).length > 0`:
\* the right operand is evaluated only for null
KeyCount(firebase) == IF firebase \in FirebaseConfigs THEN 1 ELSE 0
WithFirebase(firebase) == firebase # Null \/ KeyCount(firebase) > 0

\* `config.firebase ?? {} as FirebaseConfig`
OrElseEmptyObject(firebase) ==
  IF firebase = Undefined \/ firebase = Null THEN EmptyObject ELSE firebase

\* the push notification part of the constructor (lines 86 to 91)
ConstructPush(t, cfg) ==
  LET cid == IF cfg.customerId = Undefined THEN "" ELSE cfg.customerId IN
  IF WithFirebase(cfg.firebase)
    THEN [t EXCEPT !.customerId = cid,
                   !.services = <<NewPushService(OrElseEmptyObject(cfg.firebase), cid)>>,
                   !.pushNotifications = 1]
    ELSE [t EXCEPT !.customerId = cid]

\* `config.organisationId ?? ''`
OrElseEmpty(x) == IF x = Undefined THEN "" ELSE x

\* the constructor takes the else-if branch that calls setApiKey
StartsLogin(cfg) == ~Truthy(cfg.accessToken) /\ Truthy(cfg.apiKey)

\* variant of Constructor without the setOrganisationId call
ConstructorNoOrganisationStep(s, cfg) ==
  LET s1 == DoSetBaseUrl(s, StagingUrl)
      s2 == IF Truthy(cfg.accessToken)
              THEN DoSetTokenAndOrganisationId(s1, cfg.accessToken,
                                               OrElseEmpty(cfg.organisationId))
              ELSE IF Truthy(cfg.apiKey) THEN DoSetApiKey(s1) ELSE s1
      s4 == IF Truthy(cfg.refreshToken)
              THEN DoSetRefreshToken(s2, cfg.refreshToken) ELSE s2
  IN DoGetApi(DoGetApi(DoGetApi(s4, "event"), "message"), "customer")

\* the session calls of the constructor, in order; the services it creates
\* at the end look up the event, message and customer sub-clients
Constructor(s, cfg) ==
  LET s1 == DoSetBaseUrl(s, StagingUrl)
      s2 == IF Truthy(cfg.accessToken)
              THEN DoSetTokenAndOrganisationId(s1, cfg.accessToken,
                                               OrElseEmpty(cfg.organisationId))
              ELSE IF Truthy(cfg.apiKey) THEN DoSetApiKey(s1) ELSE s1
      s3 == IF Truthy(cfg.organisationId)
              THEN DoSetOrganisationId(s2, cfg.organisationId) ELSE s2
      s4 == IF Truthy(cfg.refreshToken)
              THEN DoSetRefreshToken(s3, cfg.refreshToken) ELSE s3
  IN DoGetApi(DoGetApi(DoGetApi(s4, "event"), "message"), "customer")

NewTowncryer(cfg) ==
  /\ ~Busy
  /\ ~towncryer.made
  /\ StartsLogin(cfg) => req[LoginId].st = "idle"
  /\ LET s == Constructor(Session, cfg) IN
     /\ Adopt(s)
     /\ IF StartsLogin(cfg)
          THEN /\ req' = [req EXCEPT ![LoginId] = LoginSent(s)]
               /\ login' = [key |-> cfg.apiKey, by |-> "constructor", data |-> NoData]
          ELSE UNCHANGED <<req, login>>
  /\ towncryer' = ConstructPush([NoTowncryer EXCEPT
                                   !.made = TRUE, !.config = cfg,
                                   !.localStorage = towncryer.localStorage],
                                cfg)
  /\ call' = Call("Towncryer", "", "")
  /\ UNCHANGED <<isRefreshing, failedQueue, rcall, nSet>>

\* -------------------------------------------------- publishing an event
\* Towncryer.publishEvent(p): the event service sends the events request
publishEvent(p) ==
  /\ ~Busy
  /\ towncryer.made
  /\ towncryer.eventService.st = "idle"
  /\ towncryer' = [towncryer EXCEPT !.eventService =
                     [@ EXCEPT !.st = "inflight", !.payload = p,
                               !.published = @ + 1]]
  /\ UNCHANGED <<sessionVars, apiInstances, login, call, isRefreshing, failedQueue,
                 req, rcall, nSet>>

\* `apiError.message || 'Failed to register token'`
OrFailedToRegister(m) == IF m = "" THEN "Failed to register token" ELSE m

\* registerToken after its await: a response of publishEvent that has code
\* and message is returned as it is; a rejection is caught and answered with
\* code '500'
RegisterTokenSettles(p) ==
  IF p.settled = "resolved"
    THEN p
    ELSE [settled |-> "resolved", code |-> "500",
          message |-> OrFailedToRegister(p.message), thrown |-> "none"]

\* the events request settles with o and publishEvent runs to its end; a
\* registerToken call waiting for it runs to its end too
EventAnswered(o) ==
  /\ ~Busy
  /\ towncryer.eventService.st = "inflight"
  /\ towncryer' = [towncryer EXCEPT
                     !.eventService =
                       [@ EXCEPT !.st = "settled", !.answer = o.kind,
                                 !.status = o.status,
                                 !.result = PublishSettles(o)],
                     !.registerToken =
                       IF @.st = "awaiting"
                         THEN [st |-> "settled",
                               result |-> RegisterTokenSettles(PublishSettles(o))]
                         ELSE @]
  /\ UNCHANGED <<sessionVars, apiInstances, login, call, isRefreshing, failedQueue,
                 req, rcall, nSet>>

\* ---------------------------------------------------- push notifications
HasPush == towncryer.pushNotifications # 0
Current == towncryer.services[towncryer.pushNotifications]

PushFrame ==
  UNCHANGED <<sessionVars, apiInstances, login, isRefreshing, failedQueue,
              req, rcall, nSet>>

\* Towncryer.initialize(): throws without a push service; else it calls the
\* service's initialize and returns without awaiting it. The service creates
\* the Firebase app and waits for isSupported().
initialize ==
  /\ ~Busy
  /\ towncryer.made
  /\ HasPush => ~Current.initializing
  /\ towncryer' =
       IF ~HasPush
         THEN [towncryer EXCEPT !.thrown = NotInitialized]
         ELSE [towncryer EXCEPT
                 !.thrown = "none",
                 !.services[towncryer.pushNotifications].initializing = TRUE]
  /\ call' = Call("initialize", "", "")
  /\ PushFrame

\* isSupported() settles for service i: when messaging is supported the
\* service sets firebaseMessaging, else its initialize rejects
InitializeSettles(i, supported) ==
  /\ ~Busy
  /\ i \in DOMAIN towncryer.services
  /\ towncryer.services[i].initializing
  /\ towncryer' =
       [towncryer EXCEPT
          !.services[i].initializing = FALSE,
          !.services[i].firebaseMessaging = (@ \/ supported)]
  /\ UNCHANGED call
  /\ PushFrame

\* setCustomerId body: for a non-empty id the push notification service is
\* constructed anew with the id
DoSetCustomerId(t, c) ==
  IF c # ""
    THEN [t EXCEPT
            !.customerId = c,
            !.services = Append(@, NewPushService(OrElseEmptyObject(t.config.firebase), c)),
            !.pushNotifications = Len(t.services) + 1,
            !.thrown = "none"]
    ELSE [t EXCEPT !.customerId = c, !.thrown = "none"]

\* Towncryer.setCustomerId(c); the service constructed looks up the message
\* sub-client
setCustomerId(c) ==
  /\ ~Busy
  /\ towncryer.made
  /\ Len(towncryer.services) <= MaxPush
  /\ Adopt(IF c # "" THEN DoGetApi(Session, "message") ELSE Session)
  /\ towncryer' = DoSetCustomerId(towncryer, c)
  /\ call' = Call("setCustomerId", c, "")
  /\ UNCHANGED <<login, isRefreshing, failedQueue, req, rcall, nSet>>

\* getPushNotificationService().receiveNotifications(callback)
receiveNotifications ==
  /\ ~Busy
  /\ towncryer.made
  /\ towncryer' =
       IF ~HasPush
         THEN [towncryer EXCEPT !.thrown = NotInitialized]
         ELSE IF ~Current.firebaseMessaging
           THEN [towncryer EXCEPT !.thrown = NoMessaging]
           ELSE [towncryer EXCEPT
                   !.thrown = "none",
                   !.services[towncryer.pushNotifications].listening = TRUE]
  /\ call' = Call("receiveNotifications", "", "")
  /\ PushFrame

\* variant of Store that drops nothing
StoreKeepAll(list, n) == <<n>> \o list

\* the list stored after notification n has been put in front of list:
\* `notifications.unshift(notification)`, then `notifications.pop()` when
\* the list has more than 50 entries
Store(list, n) ==
  LET notifications == <<n>> \o list IN
  IF Len(notifications) > StoredLimit
    THEN SubSeq(notifications, 1, Len(notifications) - 1)
    ELSE notifications

\* a push message arrives and the onMessage callback of service i maps it
\* to a notification: it is stored when the service has a customer id
MessageReceived(i) ==
  /\ ~Busy
  /\ i \in DOMAIN towncryer.services
  /\ towncryer.services[i].listening
  /\ towncryer.received < MaxMsg
  /\ LET n == towncryer.received + 1
         c == towncryer.services[i].customerId
     IN towncryer' =
          IF Truthy(c)
            THEN [towncryer EXCEPT !.received = n, !.storageKey = c,
                                   !.localStorage[c] = Store(@, n)]
            ELSE [towncryer EXCEPT !.received = n, !.storageKey = "none"]
  /\ UNCHANGED call
  /\ PushFrame

\* variant of DoRegisterToken that assigns the customer id before it
\* validates the arguments
DoRegisterTokenAssignFirst(t, customerId, tok) ==
  LET t1 == [t EXCEPT !.services[t.pushNotifications].customerId = customerId] IN
  IF customerId = "" THEN [t1 EXCEPT !.thrown = CustomerIdRequired]
  ELSE IF tok = "" THEN [t1 EXCEPT !.thrown = TokenRequired]
  ELSE [t1 EXCEPT
          !.thrown = "none",
          !.eventService = [@ EXCEPT !.st = "inflight",
                                     !.payload = TokenRegisteredEvent,
                                     !.published = @ + 1],
          !.registerToken = [@ EXCEPT !.st = "awaiting"]]

\* registerToken up to its await, on the current service of t: the two
\* validations, the assignment of the customer id, the call of publishEvent
DoRegisterToken(t, customerId, tok) ==
  IF customerId = "" THEN [t EXCEPT !.thrown = CustomerIdRequired]
  ELSE IF tok = "" THEN [t EXCEPT !.thrown = TokenRequired]
  ELSE [t EXCEPT
          !.thrown = "none",
          !.services[t.pushNotifications].customerId = customerId,
          !.eventService = [@ EXCEPT !.st = "inflight",
                                     !.payload = TokenRegisteredEvent,
                                     !.published = @ + 1],
          !.registerToken = [@ EXCEPT !.st = "awaiting"]]

\* Towncryer.registerPushToken(customerId, tok): throws without a push
\* service, else delegates to registerToken of the service
registerPushToken(customerId, tok) ==
  /\ ~Busy
  /\ towncryer.made
  /\ towncryer.eventService.st = "idle"
  /\ towncryer' =
       IF ~HasPush
         THEN [towncryer EXCEPT !.thrown = NotInitialized]
         ELSE DoRegisterToken(towncryer, customerId, tok)
  /\ call' = Call("registerPushToken", customerId, tok)
  /\ PushFrame

\* ------------------------------------------- the services/api.ts variant
\* The ApiService of services/api.ts: createAxiosInstance sets the three
\* headers unconditionally, every setter builds a handle, and each setter
\* decides by itself whether to install the interceptors on it.
api_CreateAxiosInstance(base, tok, ten, n) ==
  [id |-> n,
   baseURL |-> base,
   interceptors |-> FALSE,
   headers |-> [Client |-> SDKClient,
                Tenant |-> ten,
                Authorization |-> Bearer(tok)]]

\* `this.axiosInstance = this.createAxiosInstance()`
api_Build(s) ==
  [s EXCEPT !.created = s.created + 1,
            !.axiosInstance = api_CreateAxiosInstance(s.basePath, s.token, s.tenantId,
                                                      s.created + 1)]

\* `this.setupAxiosInterceptors()`
api_Setup(s) == [s EXCEPT !.axiosInstance = SetupAxiosInterceptors(s.axiosInstance)]

api_DoSetBaseUrl(s, url) == api_Build([s EXCEPT !.basePath = url])

api_DoSetToken(s, t) == api_Setup(api_Build([s EXCEPT !.token = t]))

api_DoSetOrganisationId(s, id) == api_Setup(api_Build([s EXCEPT !.tenantId = id]))

api_DoSetTokenAndOrganisationId(s, t, id) ==
  api_Setup(api_Build([s EXCEPT !.token = t, !.tenantId = id]))

\* the state after the constructor of services/api.ts
api_Init ==
  /\ token = Undefined
  /\ refreshToken = Undefined
  /\ tenantId = ""
  /\ isRefreshing = FALSE
  /\ failedQueue = <<>>
  /\ created = 1
  /\ basePath = Undefined
  /\ authMethod = TOKEN
  /\ axiosInstance = SetupAxiosInterceptors(
                       api_CreateAxiosInstance(Undefined, Undefined, "", 1))
  /\ apiInstances = NoApiInstances
  /\ req = [r \in AllReqs |->
              [st |-> "idle", client |-> SDKClient, retry |-> FALSE,
               nSend |-> 0, auth |-> Absent, role |-> "none",
               outcome |-> Pending, early |-> FALSE, resp |-> 0, turn |-> 0]]
  /\ rcall = [r \in AllReqs |-> [st |-> "none", endpoint |-> "none",
                                  rt |-> Undefined, retry |-> FALSE,
                                  resp |-> 0, data |-> NoData, turn |-> 0]]
  /\ nSet = 0
  /\ login = [key |-> Undefined, by |-> "none", data |-> NoData]
  /\ towncryer = NoTowncryer
  /\ call = NoCall
  /\ axiosInstanceFactory = DefaultFactory

\* a setter call on the services/api.ts session, which leaves it as s
api_SetterCall(s) ==
  /\ s.created <= MaxBuilt
  /\ Adopt(s)
  /\ UNCHANGED <<isRefreshing, failedQueue, req, rcall, nSet, login, towncryer>>

api_setBaseUrl(url) ==
  /\ api_SetterCall(api_DoSetBaseUrl(Session, url))
  /\ call' = Call("setBaseUrl", url, "")

api_setToken(t) ==
  /\ api_SetterCall(api_DoSetToken(Session, t))
  /\ call' = Call("setToken", t, "")

api_setOrganisationId(id) ==
  /\ api_SetterCall(api_DoSetOrganisationId(Session, id))
  /\ call' = Call("setOrganisationId", id, "")

api_setTokenAndOrganisationId(t, id) ==
  /\ api_SetterCall(api_DoSetTokenAndOrganisationId(Session, t, id))
  /\ call' = Call("setTokenAndOrganisationId", t, id)

\* ------------------------------------------------------------------ Next
Next ==
  \/ \E t \in Tokens \cup {Undefined} : setToken(t)
  \/ \E rt \in RTokens \cup {Undefined} : setRefreshToken(rt)
  \/ \E r \in Reqs, c \in Clients : Send(r, c)
  \/ \E r \in Reqs : RespondOk(r)
  \/ \E r \in Reqs, s \in Statuses : RespondError(r, s)
  \/ \E r \in Reqs : ReplaySettled(r)
  \/ \E r \in Reqs, a \in {IssuedToken(NextIssue), Undefined},
          rt \in {IssuedRefreshToken(NextIssue), Undefined} :
       RefreshOk(r, a, rt)
  \/ \E r \in Reqs, s \in Statuses : RefreshError(r, s)

Spec == Init /\ [][Next]_vars

\* every transport call eventually responds, and the callbacks scheduled on a
\* settled promise run
Answered(r) ==
  \/ RespondOk(r)
  \/ \E s \in Statuses : RespondError(r, s)

RefreshAnswered(r) ==
  \/ \E a \in {IssuedToken(NextIssue), Undefined},
          rt \in {IssuedRefreshToken(NextIssue), Undefined} : RefreshOk(r, a, rt)
  \/ \E s \in Statuses : RefreshError(r, s)

Fairness ==
  \A r \in Reqs : /\ WF_vars(Answered(r))
                  /\ WF_vars(RefreshAnswered(r))
                  /\ WF_vars(ReplaySettled(r))

FairSpec == Spec /\ Fairness

\* the session as an application configures it: the setters, the sub-client
\* cache, the Towncryer constructor and the API-key login with its answers
SessionNext ==
  \/ \E t \in Tokens \cup {Undefined} : appSetToken(t)
  \/ \E rt \in RTokens \cup {Undefined} : appSetRefreshToken(rt)
  \/ \E id \in Orgs \cup {""} : setOrganisationId(id)
  \/ \E t \in Tokens, id \in Orgs \cup {""} : setTokenAndOrganisationId(t, id)
  \/ \E url \in BaseUrls : setBaseUrl(url)
  \/ \E f \in Factories : getInstance(f)
  \/ \E k \in ApiKeys : setApiKey(k)
  \/ \E cfg \in Configs : NewTowncryer(cfg)
  \/ \E n \in AskedApiNames : getApi(n)
  \/ \E a \in {LoginToken, Undefined}, rt \in {LoginRefreshToken, Undefined} :
       LoginOk(a, rt)
  \/ \E s \in Statuses : RespondError(LoginId, s)
  \/ ReplaySettled(LoginId)
  \/ \E a \in {IssuedToken(NextIssue), Undefined},
        rt \in {IssuedRefreshToken(NextIssue), Undefined} :
       RefreshOk(LoginId, a, rt)
  \/ \E s \in Statuses : RefreshError(LoginId, s)

SessionSpec == Init /\ [][SessionNext]_vars

\* an application whose requests and API-key login go through the interceptor
\* together: the refresh runs in either auth mode and the login call can
\* trigger it or wait in failedQueue
AppNext ==
  \/ \E rt \in RTokens : setRefreshToken(rt)
  \/ \E k \in ApiKeys : setApiKey(k)
  \/ LoginOk(LoginToken, LoginRefreshToken)
  \/ \E r \in Reqs : Send(r, SDKClient)
  \/ \E r \in Reqs : RespondOk(r)
  \/ \E r \in AllReqs : RespondError(r, 401)
  \/ \E r \in AllReqs : ReplaySettled(r)
  \/ \E r \in AllReqs :
       RefreshOk(r, IssuedToken(NextIssue), IssuedRefreshToken(NextIssue))
  \/ \E r \in AllReqs, s \in Statuses : RefreshError(r, s)

AppSpec == Init /\ [][AppNext]_vars

\* an application that constructs Towncryer and publishes an event
EventNext ==
  \/ \E cfg \in Configs : NewTowncryer(cfg)
  \/ \E p \in EventPayloads : publishEvent(p)
  \/ \E o \in EventAnswers : EventAnswered(o)

EventSpec == Init /\ [][EventNext]_vars

\* an application that constructs Towncryer and uses push notifications
PushNext ==
  \/ \E cfg \in PushConfigs : NewTowncryer(cfg)
  \/ initialize
  \/ \E i \in 1..(MaxPush + 1), supported \in BOOLEAN : InitializeSettles(i, supported)
  \/ \E c \in CustomerIds \cup {""} : setCustomerId(c)
  \/ receiveNotifications
  \/ \E c \in CustomerIds \cup {""}, tok \in PushTokens \cup {""} :
       registerPushToken(c, tok)
  \/ \E o \in EventAnswers : EventAnswered(o)

PushSpec == Init /\ [][PushNext]_vars

\* an application that constructs Towncryer and receives push messages, on
\* a page whose localStorage holds a notification list of each customer
StoreInit ==
  /\ InitSession
  /\ \E n \in StoredAtStart :
       towncryer = [NoTowncryer EXCEPT
                      !.localStorage = [c \in CustomerIds |-> OldList(n)]]

StoreNext ==
  \/ \E cfg \in PushConfigs : NewTowncryer(cfg)
  \/ initialize
  \/ \E i \in 1..(MaxPush + 1), supported \in BOOLEAN : InitializeSettles(i, supported)
  \/ \E c \in CustomerIds \cup {""} : setCustomerId(c)
  \/ receiveNotifications
  \/ \E i \in 1..(MaxPush + 1) : MessageReceived(i)

StoreSpec == StoreInit /\ [][StoreNext]_vars

\* an application that configures the session of services/api.ts
api_Next ==
  \/ \E url \in BaseUrls \cup {StagingUrl} : api_setBaseUrl(url)
  \/ \E t \in Tokens \cup {Undefined} : api_setToken(t)
  \/ \E id \in Orgs \cup {""} : api_setOrganisationId(id)
  \/ \E t \in Tokens, id \in Orgs \cup {""} : api_setTokenAndOrganisationId(t, id)

api_Spec == api_Init /\ [][api_Next]_vars

TypeOK ==
  /\ token \in AllTokens \cup {Undefined}
  /\ refreshToken \in AllRTokens \cup {Undefined}
  /\ isRefreshing \in BOOLEAN
  /\ \A r \in AllReqs : req[r].st \in {"idle", "inflight", "awaitRefresh", "queued",
                                       "settling", "done"}
  /\ \A r \in AllReqs : rcall[r].st \in {"none", "sent", "parked", "nested", "ok",
                                         "failed"}
  /\ tenantId \in Orgs \cup {""}
  /\ basePath \in BaseUrls \cup {StagingUrl, Undefined}
  /\ authMethod \in {API_KEY, TOKEN}
  /\ DOMAIN apiInstances \subseteq ApiNames
  /\ \A n \in DOMAIN apiInstances : apiInstances[n].axios.id \in 1..created
  /\ axiosInstance.id = created
  /\ towncryer.config \in Configs \cup PushConfigs
  /\ login.by \in {"none", "application", "constructor"}
  /\ axiosInstanceFactory \in Factories

\* =================================================================== claims
\* request r's pending send is answered in this step
Handled(r) == req[r].st = "inflight" /\ req'[r] # req[r]

\* the answer handled in this step for r is a 401 that meets the three predicates
EligibleAnswer(r) ==
  /\ req[r].client = SDKClient
  /\ req'[r].resp = 401
  /\ ~req[r].retry

\* the refresh call of trigger x is answered in this step
CallAnswered(x) == rcall[x].st = "sent" /\ rcall'[x] # rcall[x]

StartedCalls == {x \in Reqs : rcall[x].st # "none"}
OutstandingCalls == {x \in Reqs : rcall[x].st \in {"sent", "parked", "nested"}}

\* the trigger x and the requests waiting in failedQueue
TriggerAndWaiters(x) == {r \in Reqs : r = x \/ InQueue(ReqWaiter(r), failedQueue)}

\* C1: N requests outstanding together (all issued before any 401 was handled)
\* that each receive an eligible 401, with every refresh call answered
\* successfully with an access token: exactly one refresh call is made, and once every request has
\* come to rest all N have been replayed carrying the same Authorization.
C1_OneRefreshAllReplayed ==
  LET batch == {r \in Reqs : req[r].retry} IN
  ( /\ batch # {}
    /\ \A r \in batch : req[r].early
    /\ \A x \in Reqs : rcall[x].st \in {"none", "sent", "ok"}
    /\ \A x \in Reqs : rcall[x].st = "ok" => Truthy(rcall[x].data.accessToken)
    /\ \A r \in Reqs : req[r].outcome # NoRefreshTokenError )
  => /\ Cardinality(StartedCalls) = 1
     /\ (\A r \in Reqs : req[r].st \in {"done", "queued"})
          => \A r1, r2 \in batch : /\ req[r1].nSend = 2
                                   /\ req[r1].auth = req[r2].auth

\* C2: at most one refresh call is outstanding in every reachable state, and an
\* eligible 401 (of a request or of the refresh call) handled while isRefreshing
\* is true appends exactly one waiter to failedQueue and starts no refresh call.
C2_SingleFlight ==
  /\ [](Cardinality(OutstandingCalls) <= 1)
  /\ [][ /\ \A r \in Reqs :
              (Handled(r) /\ EligibleAnswer(r) /\ isRefreshing)
                => /\ failedQueue' = Append(failedQueue, ReqWaiter(r))
                   /\ \A x \in Reqs : rcall'[x].st = rcall[x].st
         /\ \A x \in Reqs :
              (CallAnswered(x) /\ rcall'[x].resp = 401 /\ ~rcall[x].retry /\ isRefreshing)
                => /\ failedQueue' = Append(failedQueue, CallWaiter(x))
                   /\ \A y \in Reqs \ {x} : rcall'[y].st = rcall[y].st
                   /\ rcall'[x].st = "parked" ]_vars

C2_Witness ==
  \E r, x \in Reqs : /\ req[r].st = "queued"
                     /\ InQueue(ReqWaiter(r), failedQueue)
                     /\ rcall[x].st = "sent"
                     /\ isRefreshing

\* C3: when the refresh endpoint answers with access token A2 and refresh token
\* R2 while the trigger and the other request have both received their 401, both
\* are replayed with Authorization "Bearer A2", and the session then holds
\* token A2 and refresh token R2.
C3_ReplayedWithNewToken ==
  [][ \A x \in Reqs :
        ( /\ CallAnswered(x)
          /\ rcall'[x].st = "ok"
          /\ rcall'[x].data = [accessToken |-> "A2", refreshToken |-> "R2"] )
        => /\ token' = "A2"
           /\ refreshToken' = "R2"
           /\ \A r \in TriggerAndWaiters(x) :
                /\ req'[r].st = "inflight"
                /\ req'[r].nSend = req[r].nSend + 1
                /\ req'[r].auth = "Bearer A2" ]_vars

C3_Witness ==
  \E x, r \in Reqs :
    /\ x # r
    /\ req[x].role = "trigger" /\ req[r].role = "waiter"
    /\ req[x].st = "inflight" /\ req[r].st = "inflight"
    /\ req[x].nSend = 2 /\ req[r].nSend = 2
    /\ req[x].auth = "Bearer A2" /\ req[r].auth = "Bearer A2"
    /\ token = "A2" /\ refreshToken = "R2"

\* C4: when the refresh call fails with error E, the trigger and every waiter
\* queued behind it are rejected with E (not with their own 401 error), none of
\* them is sent again, and a rejected request stays rejected.
C4_RefreshErrorPropagates ==
  /\ [][ \A x \in Reqs :
           (CallAnswered(x) /\ rcall'[x].st = "failed")
           => \A r \in TriggerAndWaiters(x) :
                /\ req'[r].st = "done"
                /\ req'[r].outcome = RefreshCallError(x, rcall'[x].resp)
                /\ req'[r].nSend = req[r].nSend ]_vars
  /\ [][ \A r \in Reqs : req[r].st = "done" => req'[r] = req[r] ]_vars

C4_Witness ==
  \E x, r \in Reqs :
    /\ x # r
    /\ rcall[x].st = "failed"
    /\ req[x].st = "done" /\ req[r].st = "done"
    /\ req[r].role = "waiter"
    /\ req[x].outcome.kind = "refreshError"
    /\ req[r].outcome = req[x].outcome

\* C5: after the refresh call has failed, isRefreshing is false again.
C5_FlagClearedAfterFailure ==
  [][ \A x \in Reqs :
        (CallAnswered(x) /\ rcall'[x].st = "failed") => ~isRefreshing' ]_vars

\* C6: an eligible 401 handled while no refresh token is held fails at once with
\* the refresh-token-required error, is not replayed or queued, and no refresh
\* call is made.
C6_NoRefreshTokenFailsFast ==
  [][ \A r \in Reqs :
        (Handled(r) /\ EligibleAnswer(r) /\ ~Truthy(refreshToken))
        => /\ req'[r].st = "done"
           /\ req'[r].outcome = NoRefreshTokenError
           /\ req'[r].outcome.message = NoRefreshTokenMsg
           /\ req'[r].nSend = req[r].nSend
           /\ rcall' = rcall ]_vars

\* C7: a request is sent at most twice (one replay); the failure of a request
\* that carries the _retry marker, a 401 included, goes to the caller as it is,
\* with no refresh call, no queuing and no further replay.
C7_AtMostOneReplay ==
  /\ [](\A r \in Reqs : req[r].nSend <= 2)
  /\ [][ \A r \in Reqs :
           /\ (Handled(r) /\ req[r].retry)
                => /\ req'[r].st \in {"done", "settling"}
                   /\ req'[r].nSend = req[r].nSend
                   /\ req'[r].resp # 200
                        => req'[r].outcome = HttpError(r, req[r].nSend, req'[r].resp)
                   /\ rcall' = rcall
                   /\ failedQueue' = failedQueue
                   /\ isRefreshing' = isRefreshing
           /\ (req[r].st = "settling" /\ req'[r] # req[r])
                => /\ req'[r].st = "done"
                   /\ req'[r].outcome = req[r].outcome
                   /\ req'[r].nSend = req[r].nSend
                   /\ rcall' = rcall ]_vars

C7_Witness ==
  \E r \in Reqs : /\ req[r].retry
                  /\ req[r].st = "done"
                  /\ req[r].outcome = HttpError(r, 2, 401)

\* C8: a failed request without config, or whose Client header is absent or is
\* not the SDK's, is never replayed and never starts or joins a refresh, also
\* when its status is 401.
C8_ForeignRequestUntouched ==
  /\ [](\A r \in Reqs : req[r].client # SDKClient => req[r].nSend <= 1 /\ ~req[r].retry)
  /\ [][ \A r \in Reqs :
           (Handled(r) /\ req[r].client # SDKClient)
           => /\ req'[r].st = "done"
              /\ req'[r].nSend = req[r].nSend
              /\ req'[r].retry = req[r].retry
              /\ rcall' = rcall
              /\ failedQueue' = failedQueue
              /\ isRefreshing' = isRefreshing ]_vars

C8_Witness ==
  \E r \in Reqs : /\ req[r].client \in {"noconfig", Absent, "OtherClient"}
                  /\ req[r].st = "done"
                  /\ req[r].outcome = HttpError(r, 1, 401)

C10_ErrorOnlyFromRefresh ==
  \A r \in Reqs :
    ( /\ req[r].retry
      /\ req[r].st = "done"
      /\ \A x \in Reqs : rcall[x].st = "ok" => Truthy(rcall[x].data.accessToken) )
    => \/ req[r].outcome = Response(r, 2)
       \/ req[r].outcome.kind = "httpError" /\ req[r].outcome.r = r /\ req[r].outcome.n = 2
       \/ req[r].outcome.kind \in {"refreshError", "Error"}

\* ------------------------------------------------- claims on the setters
\* the step is a counted setter call named op
SetterStep(op) == nSet' = nSet + 1 /\ call'.op = op

\* the headers the claims expect on a handle built for token tok and tenant ten
ExpectedTenant(ten) == IF ten = "" THEN Absent ELSE ten
ExpectedAuthorization(tok) == IF tok = Undefined THEN Absent ELSE "Bearer " \o tok

\* C11: setToken(t) with t equal to the session token builds no handle; with a
\* different t it builds exactly one new handle
C11_SetTokenBuildsOnChangeOnly ==
  [][SetterStep("setToken") =>
       /\ token' = call'.a
       /\ IF token = call'.a
            THEN created' = created /\ axiosInstance' = axiosInstance
            ELSE created' = created + 1 /\ axiosInstance'.id = created + 1]_vars

\* setToken("A1") was called on a session constructed with access token A1
C11_Witness ==
  /\ call = Call("setToken", "A1", "")
  /\ towncryer.made
  /\ towncryer.config.accessToken = "A1"
  /\ towncryer.config.organisationId = Undefined
  /\ created = 3

\* C12: setOrganisationId(id) builds a new handle exactly when id differs from
\* the tenant id, and the tenant id is id afterwards
C12_SetOrganisationIdBuildsIffChanged ==
  [][SetterStep("setOrganisationId") =>
       /\ tenantId' = call'.a
       /\ (created' # created) <=> (tenantId # call'.a)
       /\ created' \in {created, created + 1}
       /\ created' = created => axiosInstance' = axiosInstance
       /\ created' # created => axiosInstance'.id = created']_vars

\* setOrganisationId("org1") changed the tenant id of a fresh session
C12_Witness ==
  /\ call = Call("setOrganisationId", "org1", "")
  /\ tenantId = "org1"
  /\ created = 2
  /\ axiosInstance.headers.Tenant = "org1"

\* C13: setTokenAndOrganisationId(t, o) sets token and tenant id and builds at
\* most one handle, which carries both new values
C13_SetBothBuildsAtMostOnce ==
  [][SetterStep("setTokenAndOrganisationId") =>
       /\ token' = call'.a
       /\ tenantId' = call'.b
       /\ created' \in {created, created + 1}
       /\ created' # created =>
            /\ axiosInstance'.id = created'
            /\ axiosInstance'.headers.Authorization = ExpectedAuthorization(call'.a)
            /\ axiosInstance'.headers.Tenant = ExpectedTenant(call'.b)]_vars

\* both values changed in one call on a fresh session, with one handle built
C13_Witness ==
  /\ call = Call("setTokenAndOrganisationId", "A1", "org1")
  /\ token = "A1"
  /\ tenantId = "org1"
  /\ created = 2
  /\ axiosInstance.headers.Authorization = "Bearer A1"
  /\ axiosInstance.headers.Tenant = "org1"

\* C14: setBaseUrl(url) sets the base path, builds one handle with that base
\* URL and the current headers, and leaves token, refresh token, tenant id,
\* auth mode and the sub-client cache unchanged
C14_SetBaseUrlFrame ==
  [][SetterStep("setBaseUrl") =>
       /\ basePath' = call'.a
       /\ created' = created + 1
       /\ axiosInstance'.id = created + 1
       /\ axiosInstance'.baseURL = call'.a
       /\ axiosInstance'.headers.Client = "TowncryerCoreSDK"
       /\ axiosInstance'.headers.Authorization = ExpectedAuthorization(token)
       /\ axiosInstance'.headers.Tenant = ExpectedTenant(tenantId)
       /\ UNCHANGED <<token, refreshToken, tenantId, authMethod, apiInstances>>]_vars

\* setBaseUrl ran on a session that holds a token, a tenant id and sub-clients
C14_Witness ==
  /\ call.op = "setBaseUrl"
  /\ basePath = call.a
  /\ axiosInstance.baseURL = call.a
  /\ token = "A1"
  /\ tenantId = "org1"
  /\ "event" \in DOMAIN apiInstances
  /\ apiInstances["event"].axios.id < created

\* C15: every handle the session builds carries Client = TowncryerCoreSDK,
\* X-Tenant-ID exactly when the tenant id is non-empty, and Authorization
\* exactly when a token is set, with the values current at build time
C15_HandleHeaders ==
  [][created' # created =>
       /\ axiosInstance'.id = created'
       /\ axiosInstance'.headers.Client = "TowncryerCoreSDK"
       /\ axiosInstance'.headers.Tenant = ExpectedTenant(tenantId')
       /\ axiosInstance'.headers.Authorization = ExpectedAuthorization(token')]_vars

\* a handle was built while the session held a tenant id and no token
C15_Witness ==
  /\ created > 1
  /\ token = Undefined
  /\ tenantId = "org1"
  /\ axiosInstance.headers.Authorization = Absent
  /\ axiosInstance.headers.Tenant = "org1"

\* C16: the first getApi(name) constructs one sub-client bound to the handle
\* current at that call; the entry is never constructed again nor replaced
C16_SubClientCachedForever ==
  /\ [](\A n \in DOMAIN apiInstances : apiInstances[n].built = 1)
  /\ [][/\ DOMAIN apiInstances \subseteq DOMAIN apiInstances'
       /\ \A n \in DOMAIN apiInstances' :
          IF n \in DOMAIN apiInstances
            THEN apiInstances'[n] = apiInstances[n]
            ELSE IF towncryer' = towncryer
                   THEN apiInstances'[n].axios = axiosInstance
                   ELSE apiInstances'[n].axios.id \in (created + 1)..created']_vars

\* the event sub-client is still the one built on the first handle although
\* the session has built handles since
C16_Witness ==
  /\ "event" \in DOMAIN apiInstances
  /\ apiInstances["event"].built = 1
  /\ apiInstances["event"].axios.id = 1
  /\ created > 2
  /\ token # Undefined

\* C17: after a change of token, tenant id or base URL a request through any
\* cached sub-client leaves on the current handle and carries its base URL
\* and headers
C17_SubClientsFollowTheHandle ==
  \A n \in DOMAIN apiInstances :
      /\ Request(n).axios.id = axiosInstance.id
      /\ Request(n).axios.baseURL = basePath
      /\ Request(n).headers.Tenant = ExpectedTenant(tenantId)
      /\ Request(n).headers.Authorization = ExpectedAuthorization(token)

\* ------------------------------------------------ claims on the API-key login
\* the step in which the login call is sent
LoginStarts == req[LoginId].st = "idle" /\ req'[LoginId].st = "inflight"

\* the step in which setApiKey settles
LoginSettles == req[LoginId].st # "done" /\ req'[LoginId].st = "done"

\* C18: setApiKey(key) switches the auth mode to API_KEY and calls
\* clientAppLogin with the key; when the login succeeds the session adopts the
\* access token and the refresh token of the answer
C18_SetApiKeyLogsInAndAdopts ==
  [][/\ LoginStarts =>
          /\ authMethod' = "api_key"
          /\ req'[LoginId].nSend = 1
          /\ call'.op = "setApiKey" => login'.key = call'.a
          /\ call'.op = "Towncryer" => login'.key = towncryer'.config.apiKey
     /\ (LoginSettles /\ req'[LoginId].outcome.kind = "response") =>
          /\ token' = login'.data.accessToken
          /\ refreshToken' = login'.data.refreshToken
          /\ authMethod' = "api_key"]_vars

\* a login started by setApiKey("K1") succeeded and its pair was adopted
C18_Witness ==
  /\ login = [key |-> "K1", by |-> "application",
              data |-> [accessToken |-> "L1", refreshToken |-> "LR1"]]
  /\ req[LoginId].st = "done"
  /\ req[LoginId].outcome.kind = "response"
  /\ token = "L1"
  /\ refreshToken = "LR1"
  /\ authMethod = "api_key"

\* C19: when the login started by the Towncryer constructor has failed, on a
\* session that received no other call, the failure was logged after the
\* constructor returned, and token and refresh token are those from before
\* the login: no token, and the refresh token of the config (refresh answers
\* are taken to carry an access token)
C19_FailedLoginLeavesTokens ==
  (/\ login.by = "constructor"
   /\ req[LoginId].st = "done"
   /\ req[LoginId].outcome.kind # "response"
   /\ nSet = 0
   /\ call.op = "Towncryer"
   /\ \A x \in AllReqs : rcall[x].st = "ok" => Truthy(rcall[x].data.accessToken))
    => /\ towncryer.made
       /\ LoginFailureLogged
       /\ token = Undefined
       /\ refreshToken = towncryer.config.refreshToken

\* C20: constructing Towncryer with an access token leaves the auth mode TOKEN
\* and makes no login call, also when an API key is supplied; with only an
\* API key the auth mode is API_KEY
C20_ModeFromConfig ==
  [][(~towncryer.made /\ towncryer'.made) =>
       LET cfg == towncryer'.config IN
       /\ cfg.accessToken # Undefined =>
            /\ authMethod' = "token"
            /\ req'[LoginId] = req[LoginId]
       /\ (cfg.accessToken = Undefined /\ cfg.apiKey # Undefined) =>
            /\ authMethod' = "api_key"
            /\ req'[LoginId].st = "inflight"]_vars

\* ------------------------------------------------- claims on the refresh
\* the refresh call of trigger x is sent in this step
CallStarts(x) == rcall[x].st = "none" /\ rcall'[x].st = "sent"

\* the refresh call of trigger x is answered successfully in this step
CallSucceeds(x) == rcall[x].st = "sent" /\ rcall'[x].st = "ok"

\* C21: a refresh calls refreshClientAppToken when the auth mode is API_KEY at
\* that time and refreshShortLivedToken when it is TOKEN, passing the refresh
\* token held then; when the call succeeds the session adopts the access and
\* refresh tokens of the answer
C21_RefreshByAuthMode ==
  [][\A x \in AllReqs :
       /\ CallStarts(x) =>
            /\ authMethod = "api_key" => rcall'[x].endpoint = "refreshClientAppToken"
            /\ authMethod = "token" => rcall'[x].endpoint = "refreshShortLivedToken"
            /\ rcall'[x].endpoint \in {"refreshClientAppToken", "refreshShortLivedToken"}
            /\ rcall'[x].rt = refreshToken
       /\ CallSucceeds(x) =>
            /\ token' = rcall'[x].data.accessToken
            /\ refreshToken' = rcall'[x].data.refreshToken]_vars

\* a refresh made in TOKEN mode and a later one made in API_KEY mode with the
\* refresh token the first one returned, both adopted
C21_Witness ==
  \E x \in Reqs :
    /\ rcall[x].endpoint = "refreshShortLivedToken"
    /\ rcall[x].rt = "R1"
    /\ rcall[x].st = "ok"
    /\ rcall[LoginId].endpoint = "refreshClientAppToken"
    /\ rcall[LoginId].rt = rcall[x].data.refreshToken
    /\ rcall[LoginId].st = "ok"
    /\ token = rcall[LoginId].data.accessToken
    /\ refreshToken = rcall[LoginId].data.refreshToken
    /\ authMethod = "api_key"

\* C22: getInstance returns the one session on every call: it was created with
\* the factory of the first call, and a later call ignores its factory and
\* leaves every field of the session as it was
C22_GetInstanceSingleton ==
  /\ [](axiosInstanceFactory = "DefaultAxiosInstanceFactory")
  /\ [][SetterStep("getInstance") =>
          UNCHANGED <<token, refreshToken, tenantId, basePath, authMethod,
                      axiosInstance, created, apiInstances, axiosInstanceFactory,
                      isRefreshing, failedQueue>>]_vars

\* getInstance was called with another factory on a session that holds a
\* token, a tenant id and sub-clients, and they are still held
C22_Witness ==
  /\ call = Call("getInstance", "OtherFactory", "")
  /\ axiosInstanceFactory = "DefaultAxiosInstanceFactory"
  /\ token = "A1"
  /\ tenantId = "org1"
  /\ created > 1
  /\ "event" \in DOMAIN apiInstances

\* failedQueue is drained in this step
Drained == failedQueue # <<>> /\ failedQueue' = <<>>

\* the position at which waiter w was settled by the drain of this step
TurnAfter(w) == IF w.kind = "req" THEN req'[w.r].turn ELSE rcall'[w.r].turn

\* C23: when failedQueue is drained its waiters are settled in the order in
\* which they were enqueued: the i-th entry of the queue is the i-th settled
C23_WaitersSettledInOrder ==
  [][Drained =>
       \A i, j \in 1..Len(failedQueue) :
         /\ TurnAfter(failedQueue[i]) >= 1
         /\ i < j => TurnAfter(failedQueue[i]) < TurnAfter(failedQueue[j])]_vars

\* two requests waited for the refresh of a third and were resolved first
\* and second
C23_Witness ==
  \E r1, r2 \in AllReqs :
    /\ req[r1].role = "waiter" /\ req[r2].role = "waiter"
    /\ req[r1].turn = 1 /\ req[r2].turn = 2
    /\ req[r1].nSend = 2 /\ req[r2].nSend = 2

\* C24: every request that enters failedQueue is eventually settled (resolved
\* by the refresh it waits for, or rejected with that refresh's error), given
\* that every transport call eventually responds
C24_WaiterEventuallySettled ==
  \A r \in Reqs : (req[r].st = "queued") ~> (req[r].st # "queued")

\* the refresh started for trigger x resolves or fails in this step: its call
\* is answered, or it throws for want of a refresh token
RefreshSettles(x) ==
  \/ rcall[x].st = "sent" /\ rcall'[x].st \in {"ok", "failed"}
  \/ /\ req[x].st = "inflight" /\ ~req[x].retry
     /\ req'[x].st = "done" /\ req'[x].role = "trigger"
     /\ req'[x].outcome = NoRefreshTokenError

\* waiter w of failedQueue is resolved (its request is sent again) or rejected
\* in this step
WaiterSettled(w) ==
  IF w.kind = "req"
    THEN req[w.r].st = "queued" /\ req'[w.r].st \in {"inflight", "done"}
    ELSE rcall[w.r].st = "parked" /\ rcall'[w.r].st \in {"sent", "failed"}

\* C25: in the step in which a refresh resolves or fails, every waiter that
\* is in failedQueue is settled and failedQueue is empty afterwards
C25_QueueDrainedAtOnce ==
  [][\A x \in AllReqs :
       RefreshSettles(x) =>
         /\ failedQueue' = <<>>
         /\ \A i \in 1..Len(failedQueue) : WaiterSettled(failedQueue[i])]_vars

\* a refresh failed while two requests waited, and both were rejected with
\* its error
C25_Witness ==
  \E x, r1, r2 \in AllReqs :
    /\ r1 # r2
    /\ rcall[x].st = "failed"
    /\ req[r1].role = "waiter" /\ req[r2].role = "waiter"
    /\ req[r1].outcome = RefreshCallError(x, 500)
    /\ req[r2].outcome = RefreshCallError(x, 500)
    /\ failedQueue = <<>>

\* C26: on a successful refresh the session adopts the new access and refresh
\* tokens, then every queued waiter is resolved with the new access token,
\* then the triggering request is replayed; a waiter is resolved only in such
\* a step and carries the token the session holds after it
C26_AdoptResolveReplay ==
  [][/\ \A x \in AllReqs :
          CallSucceeds(x) =>
            /\ token' = rcall'[x].data.accessToken
            /\ refreshToken' = rcall'[x].data.refreshToken
            /\ req'[x].st = "inflight"
            /\ req'[x].nSend = req[x].nSend + 1
            /\ req'[x].auth = "Bearer " \o token'
            /\ req'[x].turn = Len(failedQueue) + 1
            /\ \A i \in 1..Len(failedQueue) :
                 failedQueue[i].kind = "req" =>
                   /\ req'[failedQueue[i].r].st = "inflight"
                   /\ req'[failedQueue[i].r].turn < req'[x].turn
     /\ \A r \in AllReqs :
          (req[r].st = "queued" /\ req'[r].st = "inflight") =>
            /\ \E x \in AllReqs : CallSucceeds(x)
            /\ req'[r].auth = "Bearer " \o token'
            /\ token' # token]_vars

\* two waiters were resolved first and second and the trigger was replayed
\* third, all three carrying the adopted token
C26_Witness ==
  \E x, r1, r2 \in AllReqs :
    /\ rcall[x].st = "ok"
    /\ req[x].role = "trigger" /\ req[x].turn = 3 /\ req[x].st = "inflight"
    /\ req[r1].turn = 1 /\ req[r2].turn = 2
    /\ req[r1].st = "inflight" /\ req[r2].st = "inflight"
    /\ token = rcall[x].data.accessToken
    /\ req[x].auth = "Bearer " \o token
    /\ req[r1].auth = req[x].auth /\ req[r2].auth = req[x].auth

\* C27: isRefreshing becomes true in the step that starts a refresh, becomes
\* false in the step in which the refresh settles, and so is true only while
\* a refresh call is outstanding
C27_FlagOnlyWhileRefreshing ==
  /\ [](isRefreshing => \E x \in Reqs : rcall[x].st \in {"sent", "parked", "nested"})
  /\ [][\A x \in Reqs :
          /\ CallStarts(x) => isRefreshing'
          /\ RefreshSettles(x) => ~isRefreshing']_vars

\* C29: a refresh call answered 401 is never parked in failedQueue, and the
\* refresh attempt terminates: the triggering request and the queued waiters
\* are eventually rejected
C29_RefreshCall401Terminates ==
  /\ [](\A x \in Reqs : /\ rcall[x].st # "parked"
                        /\ ~InQueue(CallWaiter(x), failedQueue))
  /\ \A x \in Reqs :
       (rcall[x].resp = 401) ~>
          /\ req[x].st = "done" /\ IsError(req[x].outcome)
          /\ \A r \in Reqs : req[r].st # "queued"

\* C30: a clientAppLogin call that fails, also with status 401, starts no
\* refresh call, does not set isRefreshing and adds nothing to failedQueue;
\* after the failed login isRefreshing is false
C30_FailedLoginStartsNoRefresh ==
  /\ [][(Handled(LoginId) /\ req[LoginId].nSend = 1 /\ req'[LoginId].resp # 200) =>
          /\ rcall' = rcall
          /\ ~isRefreshing'
          /\ failedQueue' = failedQueue]_vars
  /\ []((req[LoginId].st = "done" /\ IsError(req[LoginId].outcome)) => ~isRefreshing)

\* C31: while the session holds a token, a request sent through any handle the
\* session has built (the handle a cached sub-client captured before the token
\* changed included, replays included) carries Authorization "Bearer <token
\* held at the send>" and Client "TowncryerCoreSDK"
C31_RequestsCarryCurrentToken ==
  /\ [](\A n \in DOMAIN apiInstances :
          /\ Request(n).headers.Client = "TowncryerCoreSDK"
          /\ (token # "undefined" /\ token # "") =>
               Request(n).headers.Authorization = "Bearer " \o token)
  /\ [][\A r \in AllReqs :
          (req'[r].nSend = req[r].nSend + 1 /\ token' # "undefined" /\ token' # "") =>
             /\ req'[r].auth = "Bearer " \o token'
             /\ req'[r].client = "TowncryerCoreSDK"]_vars

\* the event sub-client still holds the first handle, built without a token;
\* the session holds token A1 and a request through the sub-client carries it
C31_Witness ==
  /\ "event" \in DOMAIN apiInstances
  /\ apiInstances["event"].axios.id = 1
  /\ apiInstances["event"].axios.headers.Authorization = "absent"
  /\ token = "A1"
  /\ created > 1
  /\ Request("event").headers.Authorization = "Bearer A1"

\* C32: the auth mode is TOKEN until setApiKey is called and API_KEY from
\* then on, whether or not the login succeeds and whatever setter calls
\* follow; no other step changes it
C32_ModeChangesOnlyInSetApiKey ==
  /\ [](authMethod = IF req[LoginId].st = "idle" THEN "token" ELSE "api_key")
  /\ [][authMethod' # authMethod =>
          /\ req[LoginId].st = "idle"
          /\ req'[LoginId].st = "inflight"
          /\ authMethod' = "api_key"]_vars

\* setToken("A1") was called after the login of setApiKey had failed, and the
\* mode is still API_KEY
C32_Witness ==
  /\ call = Call("setToken", "A1", "")
  /\ token = "A1"
  /\ login.by = "application"
  /\ req[LoginId].st = "done"
  /\ IsError(req[LoginId].outcome)
  /\ authMethod = "api_key"

\* C34: constructing Towncryer with organisation id o leaves the tenant id o,
\* whether an access token, an API key or neither is supplied; besides the
\* handle of setBaseUrl the constructor builds one handle when the token or
\* the tenant id changes, and none for the tenant id once
\* setTokenAndOrganisationId has applied o
C34_ConstructorTenant ==
  [][(~towncryer.made /\ towncryer'.made
        /\ towncryer'.config.organisationId # "undefined") =>
       LET cfg == towncryer'.config IN
       /\ tenantId' = cfg.organisationId
       /\ axiosInstance'.headers.Tenant = cfg.organisationId
       /\ IF cfg.accessToken # "undefined"
            THEN created' = created + 1
                   + (IF token # cfg.accessToken \/ tenantId # cfg.organisationId
                        THEN 1 ELSE 0)
            ELSE created' = created + 1
                   + (IF tenantId # cfg.organisationId THEN 1 ELSE 0)]_vars

\* a fresh session was given access token A1 and organisation org1 by the
\* constructor, which built two handles: setBaseUrl's and one for both values
C34_Witness ==
  /\ towncryer.made
  /\ towncryer.config.accessToken = "A1"
  /\ towncryer.config.organisationId = "org1"
  /\ call.op = "Towncryer"
  /\ nSet = 0
  /\ tenantId = "org1"
  /\ created = 3

\* ------------------------------------- claims on the services/api.ts variant
\* C33: in services/api.ts every handle that becomes the current handle has
\* the refresh-on-401 response interceptor installed on it
C33_CurrentHandleIntercepted ==
  axiosInstance.interceptors = TRUE

\* ------------------------------------------- claims on push notifications
\* the service this.pushNotifications refers to has firebaseMessaging set
CurrentInitialized == HasPush /\ Current.firebaseMessaging

\* C35: once the push notification service of the Towncryer has been
\* initialized successfully, the service getPushNotificationService() returns
\* stays initialized under every later step, setCustomerId included:
\* receiveNotifications on it does not fail with 'Firebase messaging not
\* initialized', and after setCustomerId(c) its customer id is c.
C35_StaysInitialized ==
  [][CurrentInitialized =>
       /\ CurrentInitialized'
       /\ towncryer'.thrown # NoMessaging
       /\ call'.op = "setCustomerId" => Current'.customerId = call'.a]_vars

\* a firebase entry with at least one key was given
FirebaseProvided(firebase) ==
  firebase # Undefined /\ firebase # Null /\ KeyCount(firebase) > 0

\* C36: a Towncryer constructed with no firebase entry in its config has no
\* push notification service, and initialize, registerPushToken and
\* getPushNotificationService (here through receiveNotifications) fail with
\* 'Push notifications not initialized'; a push notification service exists
\* only when a Firebase config was provided.
C36_NoFirebaseNoPushService ==
  (towncryer.made /\ ~FirebaseProvided(towncryer.config.firebase))
    => /\ ~HasPush
       /\ call.op \in {"initialize", "registerPushToken", "receiveNotifications"}
            => towncryer.thrown = NotInitialized

\* C37: for a customer whose stored notification list starts with at most 50
\* entries, the list stored under '<customerId>_notifications' has at most
\* 50 entries after every sequence of received push messages; a received
\* notification is put first, the entries before it keep their order, and
\* when the list was full the last, oldest entry is the one dropped.
C37_StoredListCapped ==
  /\ [](\A c \in CustomerIds : Len(towncryer.localStorage[c]) <= StoredLimit)
  /\ [][(towncryer'.received = towncryer.received + 1
           /\ towncryer'.storageKey # "none") =>
         LET old == towncryer.localStorage[towncryer'.storageKey]
             new == towncryer'.localStorage[towncryer'.storageKey]
         IN /\ new[1] = towncryer'.received
            /\ \A k \in 2..Len(new) : new[k] = old[k - 1]
            /\ Len(new) = IF Len(old) = StoredLimit THEN StoredLimit
                                                   ELSE Len(old) + 1]_vars

C37_Witness ==
  /\ towncryer.received = 2
  /\ towncryer.storageKey = "cust1"
  /\ Len(towncryer.localStorage["cust1"]) = StoredLimit
  /\ towncryer.localStorage["cust1"][1] = 2
  /\ towncryer.localStorage["cust1"][2] = 1
  /\ towncryer.localStorage["cust1"][StoredLimit] = 3 - StoredLimit

\* C38: registerToken(customerId, token) throws, before it publishes an event
\* and before it changes the customer id of the service, when customerId or
\* token is empty; otherwise it sets the customer id of the service to
\* customerId and publishes exactly one PushNotificationTokenRegisteredEvent;
\* it does not throw for a publish failure but returns a response with code
\* '500'.
C38_RegisterToken ==
  /\ [][\A c \in CustomerIds \cup {""}, tok \in PushTokens \cup {""} :
          (HasPush /\ registerPushToken(c, tok)) =>
            IF c = "" \/ tok = ""
              THEN /\ towncryer'.thrown \in {CustomerIdRequired, TokenRequired}
                   /\ towncryer'.eventService = towncryer.eventService
                   /\ towncryer'.services = towncryer.services
              ELSE /\ towncryer'.thrown = "none"
                   /\ Current'.customerId = c
                   /\ towncryer'.eventService.published =
                        towncryer.eventService.published + 1
                   /\ towncryer'.eventService.payload = TokenRegisteredEvent]_vars
  /\ [](towncryer.registerToken.st = "settled" =>
          /\ towncryer.registerToken.result.settled = "resolved"
          /\ towncryer.eventService.answer = "error" =>
               towncryer.registerToken.result.code = "500")

C38_Witness ==
  /\ towncryer.registerToken.st = "settled"
  /\ towncryer.eventService.answer = "error"
  /\ towncryer.registerToken.result.code = "500"
  /\ towncryer.config.customerId = "cust1"
  /\ Current.customerId = "cust2"
  /\ towncryer.eventService.published = 1

\* ------------------------------------------------ claims on the services
\* C28: publishEvent throws an ApiError to its caller when the events request
\* fails
C28_PublishEventThrows ==
  (towncryer.eventService.st = "settled" /\ towncryer.eventService.answer = "error")
    => /\ towncryer.eventService.result.settled = "rejected"
       /\ towncryer.eventService.result.thrown = "ApiError"

====
